---- MODULE Spec2Model ----
(***************************************************************************)
(* Model of the serial link of esp-nt-rsl.                                 *)
(*                                                                         *)
(* src/serialHelper.py: class SerialLink, used from a caller thread        *)
(* ("main", the tick loop of the host) and from the daemon thread that     *)
(* start_heartbeat creates ("hb").  Every method is cut into the steps at  *)
(* which the other thread can interleave: each read-then-act on self.ser,  *)
(* self.last_rgb, self._hb_stop and each acquisition of self.lock is a     *)
(* step of its own.  Calls are modelled with a per-thread stack of return  *)
(* labels.                                                                 *)
(*                                                                         *)
(* The Transport (serial.Serial) is outside the repository: constructing   *)
(* one and writing to one succeed or fail nondeterministically.  self.ser  *)
(* is "None", "open" (a Serial whose is_open is True) or "closed" (a       *)
(* Serial after close()).  A Serial that is open and no longer referenced  *)
(* by self.ser is counted in leaked, unless the runtime finalises it when  *)
(* the reference is dropped (both outcomes are modelled).                  *)
(*                                                                         *)
(* The host is taken to have registered tk_root and the three callbacks,   *)
(* so that _tk_callback schedules a delivery each time it is called.       *)
(* send_message's only_if_changed is False at every call site, so the      *)
(* _last_sent comparison of line 89 never suppresses and is left out.      *)
(*                                                                         *)
(* src/rslComm.py: the Tk application FMSStatusApp with its own, single    *)
(* threaded SerialLink and the blink timers (variable app, BlinkSpec).     *)
(*                                                                         *)
(* Spec is the threaded SerialLink, BlinkSpec the Tk application, and      *)
(* ScaleSpec the scaling of send_rgb_if_changed over every channel value.  *)
(***************************************************************************)
EXTENDS Integers, Sequences, FiniteSets, TLC

\* ------------------------------------------------------------------ bounds
\* Open Transports that may exist at once before the OS refuses another one.
MaxOpenTransports == 2
\* Callback deliveries counted per transition before the counter saturates.
MaxCallbacks == 2
\* Brightness is a float in [0.0, 1.0]; the model keeps it as a multiple of
\* 1 / BDen (quarters, for which the float products c * brightness are exact).
BDen == 4

\* --------------------------------------------------------------- constants
\* line 112: min(255, ...), the largest channel value
ChanMax == 255

Threads == {"main", "hb"}
NoRgb == <<>>
HB == <<"HB">>
NoMsg == <<"none">>

\* Colours the caller sends (an odd channel value, so that halving it shows how
\* the product is made an integer), and the brightness values it sets (in
\* units of 1 / BDen; -1 and BDen + 1 lie outside [0, 1] and are clamped).
ColorsIn == {<<3, 0, 0>>, <<0, 3, 0>>}
BrightnessIn == {-1, BDen \div 2, BDen + 1}

VARIABLES
    pc,             \* thread -> label of its next step
    stack,          \* thread -> return labels of the calls in progress
    ret,            \* thread -> value returned by the call that last returned
    msg,            \* thread -> message argument of its send_message call
    ser,            \* self.ser: "None", "open" or "closed"
    leaked,         \* open Transports that self.ser no longer refers to
    lock,           \* self.lock: "free" or the thread holding it
    last_rgb,       \* self.last_rgb: NoRgb (None) or a colour
    brightness,     \* self.brightness, in units of 1 / BDen
    hb_stop,        \* self._hb_stop (threading.Event)
    auto_reconnect, \* self.auto_reconnect (configuration, fixed at construction)
    rgb,            \* the rgb argument of main's send_rgb_if_changed call
    scaled_rgb,     \* the local scaled_rgb of main's send_rgb_if_changed call
    callbacks,      \* thread -> callback -> deliveries _tk_callback scheduled for it
                    \* during the operation (main) or loop iteration (hb) in progress
    hist,           \* history the properties are stated over (no effect on the program)
    app             \* rslComm.py: the FMSStatusApp object, its SerialLink and the
                    \* _blink_step callbacks pending in the Tk event loop

link_vars == <<pc, stack, ret, msg, ser, leaked, lock, last_rgb, brightness, hb_stop,
               auto_reconnect, rgb, scaled_rgb, callbacks, hist>>

vars == <<link_vars, app>>

\* ----------------------------------------------------------------- helpers
Min(a, b) == IF a < b THEN a ELSE b
Max(a, b) == IF a > b THEN a ELSE b

\* A scaling that rounds to the nearest integer instead of truncating
ScaleChannel_rounds(c, k) == (2 * c * k + BDen) \div (2 * BDen)

\* int(c * self.brightness) for c >= 0 and brightness = k / BDen: truncation.
ScaleChannel(c, k) == (c * k) \div BDen

\* line 112: tuple(max(0, min(255, int(c * self.brightness))) for c in rgb)
scale(c, k) == [i \in 1..3 |-> Max(0, Min(ChanMax, ScaleChannel(c[i], k)))]

\* line 78: tuple(int(c * self.brightness) for c in self.last_rgb)
rescale(c, k) == [i \in 1..3 |-> ScaleChannel(c[i], k)]

\* lines 21, 76: max(0.0, min(1.0, value))
clamp_brightness(v) == Max(0, Min(BDen, v))

is_open == ser = "open"

\* lines 160-162, _tk_callback(callback): tk_root.after(0, callback)
tk_callback(t, kind) ==
    callbacks' = [callbacks EXCEPT ![t][kind] = Min(MaxCallbacks, @ + 1)]

NoCallbacks == [k \in {"connect", "disconnect", "reconnect"} |-> 0]

\* Transports that are open: the one self.ser refers to, the leaked ones, and
\* the ones a thread has constructed and not yet stored in self.ser.
Constructed == {t \in Threads : pc[t] \in {"open_assign", "try_reconnect_assign"}}
OpenTransports == (IF ser = "open" THEN 1 ELSE 0) + leaked + Cardinality(Constructed)

\* self.ser is rebound: the Serial it referred to, if open, stays open with
\* nothing referring to it, or is closed by its finaliser.
Rebind(new) ==
    /\ ser' = new
    /\ IF ser = "open"
       THEN \E finalised \in BOOLEAN : leaked' = IF finalised THEN leaked ELSE leaked + 1
       ELSE leaked' = leaked

Goto(t, l) == pc' = [pc EXCEPT ![t] = l]
Call(t, target, back) ==
    /\ pc' = [pc EXCEPT ![t] = target]
    /\ stack' = [stack EXCEPT ![t] = <<back>> \o @]
Return(t, v) ==
    /\ pc' = [pc EXCEPT ![t] = Head(stack[t])]
    /\ stack' = [stack EXCEPT ![t] = Tail(@)]
    /\ ret' = [ret EXCEPT ![t] = v]

\* The operation main is executing: the return label at the bottom of its stack.
MainOp ==
    IF stack["main"] = <<>> THEN pc["main"] ELSE stack["main"][Len(stack["main"])]

\* ----------------------------------------------------------------- history
\*   prev       rgb argument of the caller's last send_rgb_if_changed call that
\*              ran on an Open link with nothing disturbing it since (NoRgb: none)
\*   bchanged   set_brightness ran since that call
\*   valid      the send_rgb_if_changed call in progress ran on an Open link,
\*              undisturbed so far
\*   writes     LED messages written by the call in progress
\*   diff       the call in progress found its scaled colour unequal to last_rgb
\*   fresh      the call in progress began on an Open link, with no open() or
\*              try_reconnect() in progress, on which no LED message was
\*              written since self.ser became that open Transport (or the call
\*              made self.ser that Transport itself), and the link was neither
\*              closed nor reopened by another thread since
\*   open_ok    open() returned True and neither close() nor stop_heartbeat()
\*              was called since
\*   wire       channels of the last LED message written since self.ser last
\*              became an open Transport (NoRgb: none)
\*   owned      self.ser was not None when main's close() call began
NoHistory ==
    [prev |-> NoRgb, bchanged |-> FALSE, valid |-> FALSE, writes |-> 0, diff |-> FALSE,
     fresh |-> FALSE, open_ok |-> FALSE, wire |-> NoRgb, owned |-> FALSE]

\* The link was closed, or a write failed.
Disturbed(h) == [h EXCEPT !.prev = NoRgb, !.valid = FALSE, !.fresh = FALSE]

\* Thread t stored a new open Transport in self.ser.
Opened(h, t) ==
    [h EXCEPT !.prev = NoRgb, !.valid = FALSE, !.wire = NoRgb,
              !.fresh = (t = "main" /\ MainOp \in {"send_rgb_ret", "set_brightness_ret"})]

\* A thread in open() or try_reconnect() reset self.last_rgb.
Reset(h) == [h EXCEPT !.prev = NoRgb, !.valid = FALSE]

\* Thread t is inside try_reconnect().
Reconnecting(t) ==
    pc[t] \in {"try_reconnect_serial", "try_reconnect_assign",
               "try_reconnect_clear_rgb", "try_reconnect_callback"}

\* A send_rgb_if_changed call begins.
Begun(h) ==
    [h EXCEPT !.valid = TRUE, !.writes = 0, !.diff = FALSE,
              !.fresh = (ser = "open" /\ h.wire = NoRgb /\ ~Reconnecting("hb"))]

\* ============================================================== rslComm.py
\* The Tk application of rslComm.py is single threaded: every handler (poll, a
\* _blink_step timer, a button command) runs to completion in the event loop,
\* so each is one step.  The handlers are written as functions from the
\* application's state to its state after the handler.

\* Pending _blink_step timers the model keeps (root.after queue)
MaxPending == 2

\* rslComm.py lines 29-35: UI_COLORS, each "#rrggbb" as its six hex digits
UI_COLORS ==
    [Unknown  |-> <<8, 0, 8, 0, 8, 0>>,
     Disabled |-> <<0, 0, 15, 15, 0, 0>>,
     Teleop   |-> <<15, 15, 0, 0, 0, 0>>]

\* rslComm.py line 248: the colour of the "off" half of a blink
BlinkOff == <<255, 255, 0>>

\* FMSControlData values poll() reads: disabled, teleop enabled, no data
CodesIn == {32, 33, 0}

\* rslComm.py lines 37-39: hex_to_rgb
hex_to_rgb(h) == <<16 * h[1] + h[2], 16 * h[3] + h[4], 16 * h[5] + h[6]>>

\* rslComm.py lines 41-44 and 15-26: decode_fms, as (mode, enabled)
decode_fms(code) ==
    IF code = 32 THEN <<"Disabled", FALSE>>
    ELSE IF code = 33 THEN <<"Teleop", TRUE>>
    ELSE <<"Unknown", FALSE>>

\* rslComm.py lines 47-49 and 105-109: the fields after construction; after
\* holds the pending _blink_step timers in the order they will fire, each with
\* the history flag "blinking was stopped while this timer was pending";
\* wire is what the handler in progress has written, stale_write the history
\* "a timer that was pending when blinking was stopped has written", and did
\* the history of the start_blink or stop_blink call the last handler made.
NoCall == [op |-> "none"]

FMSStatusApp ==
    [ser |-> "None", last_rgb |-> NoRgb,
     blinking |-> FALSE, blink_state |-> FALSE, blink_rgb |-> NoRgb,
     after |-> <<>>, destroyed |-> FALSE,
     wire |-> <<>>, stale_write |-> FALSE, did |-> NoCall]

\* History of a start_blink / stop_blink call: its argument, whether writes
\* succeed, the state it was called in (was) and the state it returned (now).
Called(op, c, ok, was, now) ==
    [op |-> op, rgb |-> c, ok |-> ok,
     was |-> [was EXCEPT !.did = NoCall], now |-> [now EXCEPT !.did = NoCall]]

\* rslComm.py lines 56-63: SerialLink.close
rsl_close(a) == [a EXCEPT !.ser = "None", !.last_rgb = NoRgb]

\* rslComm.py lines 51-54: SerialLink.open; serial.Serial() succeeds (ok) or raises
rsl_open(a, ok) ==
    IF ok THEN [rsl_close(a) EXCEPT !.ser = "open", !.last_rgb = NoRgb]
    ELSE rsl_close(a)

\* rslComm.py lines 68-84: SerialLink.send_rgb_if_changed; the write succeeds
\* (ok) or raises, and then the link is closed
rsl_send_rgb_if_changed(a, c, ok) ==
    IF a.ser # "open" THEN a
    ELSE IF a.last_rgb = c THEN a
    ELSE IF ok THEN [a EXCEPT !.wire = Append(@, c), !.last_rgb = c]
    ELSE rsl_close(a)

\* rslComm.py lines 85-93: SerialLink.send_heartbeat
rsl_send_heartbeat(a, ok) ==
    IF a.ser # "open" THEN a
    ELSE IF ok THEN [a EXCEPT !.wire = Append(@, HB)]
    ELSE rsl_close(a)

\* rslComm.py lines 240-259: _blink_step; line 259 arms the next timer
blink_step(a, ok) ==
    IF ~a.blinking \/ a.blink_rgb = NoRgb THEN a
    ELSE LET sent == IF a.blink_state
                     THEN rsl_send_rgb_if_changed(a, BlinkOff, ok)
                     ELSE rsl_send_rgb_if_changed(a, a.blink_rgb, ok)
         IN  [sent EXCEPT !.blink_state = ~a.blink_state,
                          !.after = Append(@, [stale |-> FALSE])]

\* A start_blink without the "already blinking the same color" test
start_blink_restarts(a, rgb_hex, ok) ==
    blink_step([a EXCEPT !.blinking = TRUE, !.blink_rgb = hex_to_rgb(rgb_hex),
                         !.blink_state = FALSE], ok)

\* rslComm.py lines 214-225: start_blink (blink_interval is 600 at every call)
start_blink(a, rgb_hex, ok) ==
    LET c == hex_to_rgb(rgb_hex) IN
    IF a.blinking /\ a.blink_rgb = c THEN a
    ELSE blink_step([a EXCEPT !.blinking = TRUE, !.blink_rgb = c,
                              !.blink_state = FALSE], ok)

\* rslComm.py lines 227-238: stop_blink; the timers pending now are the ones
\* the stop is meant to cancel
stop_blink(a, ok) ==
    IF ~a.blinking THEN a
    ELSE LET stopped == [a EXCEPT !.blinking = FALSE, !.blink_state = FALSE,
                                  !.after = [i \in DOMAIN @ |-> [stale |-> TRUE]]]
             sent == IF a.blink_rgb # NoRgb
                     THEN rsl_send_rgb_if_changed(stopped, a.blink_rgb, ok)
                     ELSE stopped
         IN  [sent EXCEPT !.blink_rgb = NoRgb]

\* rslComm.py lines 264-303: poll, with the values it reads: FMSControlData,
\* whether the voltage is <= 10.0, and whether a second passed since the last
\* heartbeat.  Line 303 re-arms poll itself, so poll is always pending.
poll ==
    /\ ~app.destroyed
    /\ \E code \in CodesIn, low \in BOOLEAN, ping \in BOOLEAN, ok \in BOOLEAN :
          LET mode    == decode_fms(code)
              bg_hex  == IF mode[1] = "Unknown" THEN UI_COLORS["Unknown"]
                         ELSE IF ~mode[2] THEN UI_COLORS["Disabled"]
                         ELSE UI_COLORS[mode[1]]
              a0      == [app EXCEPT !.wire = <<>>]
              blinked == IF low
                         THEN start_blink(a0, bg_hex, ok)
                         ELSE rsl_send_rgb_if_changed(stop_blink(a0, ok), hex_to_rgb(bg_hex), ok)
              pinged  == IF ping THEN rsl_send_heartbeat(blinked, ok) ELSE blinked
              call    == IF low
                         THEN Called("start_blink", hex_to_rgb(bg_hex), ok, a0,
                                     start_blink(a0, bg_hex, ok))
                         ELSE Called("stop_blink", a0.blink_rgb, ok, a0, stop_blink(a0, ok))
          IN  /\ Len(pinged.after) <= MaxPending
              /\ app' = [pinged EXCEPT !.did = call]
    /\ UNCHANGED link_vars

\* A pending _blink_step timer fires (the one armed first fires first).
blink_timer ==
    /\ ~app.destroyed
    /\ app.after # <<>>
    /\ \E ok \in BOOLEAN :
          LET timer == Head(app.after)
              a1 == blink_step([app EXCEPT !.after = Tail(@), !.wire = <<>>], ok)
          IN  app' = [a1 EXCEPT !.stale_write = @ \/ (timer.stale /\ a1.wire # <<>>),
                                !.did = NoCall]
    /\ UNCHANGED link_vars

\* rslComm.py lines 183-202: toggle_connect (the Connect/Disconnect button):
\* no port selected, or open() succeeds or raises
toggle_connect ==
    /\ ~app.destroyed
    /\ \E port \in BOOLEAN, ok \in BOOLEAN :
          LET a0 == [app EXCEPT !.wire = <<>>] IN
          app' = [IF a0.ser = "open" THEN rsl_close(a0)
                  ELSE IF ~port THEN a0
                  ELSE rsl_open(a0, ok) EXCEPT !.did = NoCall]
    /\ UNCHANGED link_vars

\* rslComm.py lines 204-213: on_close; root.destroy() ends the event loop and
\* with it every pending timer
on_close ==
    /\ ~app.destroyed
    /\ app' = [rsl_close(app) EXCEPT !.destroyed = TRUE, !.after = <<>>, !.wire = <<>>,
                                     !.did = NoCall]
    /\ UNCHANGED link_vars

BlinkNext ==
    \/ poll
    \/ blink_timer
    \/ toggle_connect
    \/ on_close

\* -------------------------------------------------------------------- Init
Init ==
    /\ pc = [t \in Threads |-> IF t = "main" THEN "idle" ELSE "dead"]
    /\ stack = [t \in Threads |-> <<>>]
    /\ ret = [t \in Threads |-> FALSE]
    /\ msg = [t \in Threads |-> NoMsg]
    /\ ser = "None"
    /\ leaked = 0
    /\ lock = "free"
    /\ last_rgb = NoRgb
    /\ brightness = BDen
    /\ hb_stop = FALSE
    /\ auto_reconnect \in BOOLEAN
    /\ rgb = NoRgb
    /\ scaled_rgb = NoRgb
    /\ callbacks = [t \in Threads |-> NoCallbacks]
    /\ hist = NoHistory
    /\ app = FMSStatusApp

\* ----------------------------------------------------------------- close()
\* line 58: self.stop_heartbeat() (line 133: self._hb_stop.set())
close_stop(t) ==
    /\ pc[t] = "close_stop"
    /\ hb_stop' = TRUE
    /\ Goto(t, "close_lock")
    /\ hist' = [hist EXCEPT !.open_ok = FALSE]
    /\ UNCHANGED <<stack, ret, msg, ser, leaked, lock, last_rgb, brightness,
                   auto_reconnect, rgb, scaled_rgb, callbacks>>
    /\ UNCHANGED app

\* line 59: with self.lock (threading.Lock is not reentrant)
close_lock(t) ==
    /\ pc[t] = "close_lock"
    /\ lock = "free"
    /\ lock' = t
    /\ Goto(t, "close_ser")
    /\ UNCHANGED <<stack, ret, msg, ser, leaked, last_rgb, brightness, hb_stop,
                   auto_reconnect, rgb, scaled_rgb, callbacks, hist>>
    /\ UNCHANGED app

\* lines 60-64: if self.ser and self.ser.is_open: self.ser.close()
close_ser(t) ==
    /\ pc[t] = "close_ser"
    /\ ser' = IF ser = "open" THEN "closed" ELSE ser
    /\ hist' = IF ser = "open" THEN Disturbed(hist) ELSE hist
    /\ Goto(t, "close_callback")
    /\ UNCHANGED <<stack, ret, msg, leaked, lock, last_rgb, brightness, hb_stop,
                   auto_reconnect, rgb, scaled_rgb, callbacks>>
    /\ UNCHANGED app

\* lines 65-66: if self.ser: self._tk_callback(self.on_disconnect)
close_callback(t) ==
    /\ pc[t] = "close_callback"
    /\ IF ser # "None" THEN tk_callback(t, "disconnect") ELSE UNCHANGED callbacks
    /\ Goto(t, "close_clear_ser")
    /\ UNCHANGED <<stack, ret, msg, ser, leaked, lock, last_rgb, brightness, hb_stop,
                   auto_reconnect, rgb, scaled_rgb, hist>>
    /\ UNCHANGED app

\* line 67: self.ser = None
close_clear_ser(t) ==
    /\ pc[t] = "close_clear_ser"
    /\ Rebind("None")
    /\ hist' = Disturbed(hist)
    /\ Goto(t, "close_clear_rgb")
    /\ UNCHANGED <<stack, ret, msg, lock, last_rgb, brightness, hb_stop,
                   auto_reconnect, rgb, scaled_rgb, callbacks>>
    /\ UNCHANGED app

\* line 68: self.last_rgb = None, then the with block releases the lock
close_clear_rgb(t) ==
    /\ pc[t] = "close_clear_rgb"
    /\ last_rgb' = NoRgb
    /\ lock' = "free"
    /\ hist' = Disturbed(hist)
    /\ Return(t, FALSE)
    /\ UNCHANGED <<msg, ser, leaked, brightness, hb_stop,
                   auto_reconnect, rgb, scaled_rgb, callbacks>>
    /\ UNCHANGED app

\* The caller calls close().
close_call ==
    /\ pc["main"] = "idle"
    /\ Call("main", "close_stop", "close_ret")
    /\ hist' = [hist EXCEPT !.owned = ser # "None"]
    /\ UNCHANGED <<ret, msg, ser, leaked, lock, last_rgb, brightness, hb_stop,
                   auto_reconnect, rgb, scaled_rgb, callbacks>>
    /\ UNCHANGED app

\* ------------------------------------------------------------------ open()
\* The caller calls open(); line 39: self.close()
open_call ==
    /\ pc["main"] = "idle"
    /\ pc' = [pc EXCEPT !["main"] = "close_stop"]
    /\ stack' = [stack EXCEPT !["main"] = <<"open_serial", "open_ret">>]
    /\ hist' = [hist EXCEPT !.owned = ser # "None"]
    /\ UNCHANGED <<ret, msg, ser, leaked, lock, last_rgb, brightness, hb_stop,
                   auto_reconnect, rgb, scaled_rgb, callbacks>>
    /\ UNCHANGED app

\* lines 40-47 and 52-55: port = port or self.default_port, else the first
\* enumerated port, return False when there is none; then serial.Serial(...)
\* opens a Transport or raises, and on failure self.ser = None, return False.
open_serial ==
    /\ pc["main"] = "open_serial"
    /\ \/ \E given \in BOOLEAN, ports \in BOOLEAN :
             /\ ~given /\ ~ports
             /\ Return("main", FALSE)
             /\ UNCHANGED <<ser, leaked, hist>>
       \/ /\ OpenTransports < MaxOpenTransports
          /\ Goto("main", "open_assign")
          /\ UNCHANGED <<stack, ret, ser, leaked, hist>>
       \/ /\ Rebind("None")
          /\ hist' = Disturbed(hist)
          /\ Return("main", FALSE)
    /\ UNCHANGED <<msg, lock, last_rgb, brightness, hb_stop,
                   auto_reconnect, rgb, scaled_rgb, callbacks>>
    /\ UNCHANGED app

\* line 47, the store: self.ser = <the new Serial>
open_assign ==
    /\ pc["main"] = "open_assign"
    /\ Rebind("open")
    /\ hist' = Opened(hist, "main")
    /\ Goto("main", "open_clear_rgb")
    /\ UNCHANGED <<stack, ret, msg, lock, last_rgb, brightness, hb_stop,
                   auto_reconnect, rgb, scaled_rgb, callbacks>>
    /\ UNCHANGED app

\* line 48: self.last_rgb = None
open_clear_rgb ==
    /\ pc["main"] = "open_clear_rgb"
    /\ last_rgb' = NoRgb
    /\ hist' = Reset(hist)
    /\ Goto("main", "open_start_heartbeat")
    /\ UNCHANGED <<stack, ret, msg, ser, leaked, lock, brightness, hb_stop,
                   auto_reconnect, rgb, scaled_rgb, callbacks>>
    /\ UNCHANGED app

\* lines 125-130, start_heartbeat(): return if the thread is alive; otherwise
\* clear the stop event and start a new thread running _heartbeat_loop.
start_heartbeat(next) ==
    IF pc["hb"] # "dead"
    THEN UNCHANGED hb_stop /\ Goto("main", next)
    ELSE /\ hb_stop' = FALSE
         /\ pc' = [pc EXCEPT !["main"] = next, !["hb"] = "heartbeat_loop"]

\* line 49: self.start_heartbeat()
open_start_heartbeat ==
    /\ pc["main"] = "open_start_heartbeat"
    /\ start_heartbeat("open_callback")
    /\ UNCHANGED <<stack, ret, msg, ser, leaked, lock, last_rgb, brightness,
                   auto_reconnect, rgb, scaled_rgb, callbacks, hist>>
    /\ UNCHANGED app

\* lines 50-51: self._tk_callback(self.on_connect); return True
open_callback ==
    /\ pc["main"] = "open_callback"
    /\ tk_callback("main", "connect")
    /\ hist' = [hist EXCEPT !.open_ok = TRUE]
    /\ Return("main", TRUE)
    /\ UNCHANGED <<msg, ser, leaked, lock, last_rgb, brightness, hb_stop,
                   auto_reconnect, rgb, scaled_rgb>>
    /\ UNCHANGED app

\* --------------------------------------------------------- try_reconnect()
\* lines 146-151 (right-hand side) and 156-157: list_ports(), return False
\* when it is empty; serial.Serial(...) opens a Transport, or raises and the
\* method returns False.
try_reconnect_serial(t) ==
    /\ pc[t] = "try_reconnect_serial"
    /\ \/ /\ OpenTransports < MaxOpenTransports
          /\ Goto(t, "try_reconnect_assign")
          /\ UNCHANGED <<stack, ret>>
       \/ Return(t, FALSE)
    /\ UNCHANGED <<msg, ser, leaked, lock, last_rgb, brightness, hb_stop,
                   auto_reconnect, rgb, scaled_rgb, callbacks, hist>>
    /\ UNCHANGED app

\* line 151, the store: self.ser = <the new Serial>
try_reconnect_assign(t) ==
    /\ pc[t] = "try_reconnect_assign"
    /\ Rebind("open")
    /\ hist' = Opened(hist, t)
    /\ Goto(t, "try_reconnect_clear_rgb")
    /\ UNCHANGED <<stack, ret, msg, lock, last_rgb, brightness, hb_stop,
                   auto_reconnect, rgb, scaled_rgb, callbacks>>
    /\ UNCHANGED app

\* line 152: self.last_rgb = None
try_reconnect_clear_rgb(t) ==
    /\ pc[t] = "try_reconnect_clear_rgb"
    /\ last_rgb' = NoRgb
    /\ hist' = Reset(hist)
    /\ Goto(t, "try_reconnect_callback")
    /\ UNCHANGED <<stack, ret, msg, ser, leaked, lock, brightness, hb_stop,
                   auto_reconnect, rgb, scaled_rgb, callbacks>>
    /\ UNCHANGED app

\* lines 153-155: self._tk_callback(self.on_reconnect); return True
try_reconnect_callback(t) ==
    /\ pc[t] = "try_reconnect_callback"
    /\ tk_callback(t, "reconnect")
    /\ Return(t, TRUE)
    /\ UNCHANGED <<msg, ser, leaked, lock, last_rgb, brightness, hb_stop,
                   auto_reconnect, rgb, scaled_rgb, hist>>
    /\ UNCHANGED app

\* ---------------------------------------------------------- send_message()
\* A send_message that tries to reconnect whether or not auto_reconnect is set
send_message_open_reconnects(t) ==
    /\ pc[t] = "send_message_open"
    /\ IF is_open
       THEN Goto(t, "send_message_lock") /\ UNCHANGED stack
       ELSE Call(t, "try_reconnect_serial", "send_message_reconnected")
    /\ UNCHANGED <<ret, msg, ser, leaked, lock, last_rgb, brightness, hb_stop,
                   auto_reconnect, rgb, scaled_rgb, callbacks, hist>>
    /\ UNCHANGED app

\* lines 83-84: if not self.is_open(): if self.auto_reconnect and
\* self.try_reconnect(): ...
send_message_open(t) ==
    /\ pc[t] = "send_message_open"
    /\ IF is_open
       THEN Goto(t, "send_message_lock") /\ UNCHANGED stack
       ELSE IF auto_reconnect
            THEN Call(t, "try_reconnect_serial", "send_message_reconnected")
            ELSE Goto(t, "send_message_check") /\ UNCHANGED stack
    /\ UNCHANGED <<ret, msg, ser, leaked, lock, last_rgb, brightness, hb_stop,
                   auto_reconnect, rgb, scaled_rgb, callbacks, hist>>
    /\ UNCHANGED app

\* line 85: self._tk_callback(self.on_reconnect) when try_reconnect() returned True
send_message_reconnected(t) ==
    /\ pc[t] = "send_message_reconnected"
    /\ IF ret[t] THEN tk_callback(t, "reconnect") ELSE UNCHANGED callbacks
    /\ Goto(t, "send_message_check")
    /\ UNCHANGED <<stack, ret, msg, ser, leaked, lock, last_rgb, brightness, hb_stop,
                   auto_reconnect, rgb, scaled_rgb, hist>>
    /\ UNCHANGED app

\* lines 86-87: if not self.is_open(): return False
send_message_check(t) ==
    /\ pc[t] = "send_message_check"
    /\ IF is_open
       THEN Goto(t, "send_message_lock") /\ UNCHANGED <<stack, ret, msg>>
       ELSE Return(t, FALSE) /\ msg' = [msg EXCEPT ![t] = NoMsg]
    /\ UNCHANGED <<ser, leaked, lock, last_rgb, brightness, hb_stop,
                   auto_reconnect, rgb, scaled_rgb, callbacks, hist>>
    /\ UNCHANGED app

\* A send_message that enters its write without waiting for self.lock
send_message_lock_unguarded(t) ==
    /\ pc[t] = "send_message_lock"
    /\ lock' = t
    /\ Goto(t, "send_message_write")
    /\ UNCHANGED <<stack, ret, msg, ser, leaked, last_rgb, brightness, hb_stop,
                   auto_reconnect, rgb, scaled_rgb, callbacks, hist>>
    /\ UNCHANGED app

\* line 92: with self.lock
send_message_lock(t) ==
    /\ pc[t] = "send_message_lock"
    /\ lock = "free"
    /\ lock' = t
    /\ Goto(t, "send_message_write")
    /\ UNCHANGED <<stack, ret, msg, ser, leaked, last_rgb, brightness, hb_stop,
                   auto_reconnect, rgb, scaled_rgb, callbacks, hist>>
    /\ UNCHANGED app

\* lines 93-98: self.ser.write(...) succeeds; return True releases the lock.
send_message_write(t) ==
    /\ pc[t] = "send_message_write"
    /\ ser = "open"
    /\ lock' = "free"
    /\ hist' = IF msg[t] # HB
               THEN [hist EXCEPT !.writes = Min(2, @ + 1), !.wire = msg[t]]
               ELSE hist
    /\ msg' = [msg EXCEPT ![t] = NoMsg]
    /\ Return(t, TRUE)
    /\ UNCHANGED <<ser, leaked, last_rgb, brightness, hb_stop,
                   auto_reconnect, rgb, scaled_rgb, callbacks>>
    /\ UNCHANGED app

\* lines 96, 99-101: self.ser.write(...) raises (the device is gone, the port
\* was closed, or self.ser is None); the handler calls self.close() while the
\* with block still holds self.lock.  Line 102, the return False after it, has
\* no step: close() never returns here, because close_lock waits for the lock
\* this thread holds.
send_message_failed(t) ==
    /\ pc[t] = "send_message_write"
    /\ Call(t, "close_stop", "send_message_return")
    /\ hist' = Disturbed(hist)
    /\ UNCHANGED <<ret, msg, ser, leaked, lock, last_rgb, brightness, hb_stop,
                   auto_reconnect, rgb, scaled_rgb, callbacks>>
    /\ UNCHANGED app

\* ----------------------------------------------------- send_rgb_if_changed()
\* The caller calls send_rgb_if_changed(c).
send_rgb_call ==
    /\ pc["main"] = "idle"
    /\ \E c \in ColorsIn : rgb' = c
    /\ Call("main", "send_rgb_reconnect", "send_rgb_ret")
    /\ hist' = Begun(hist)
    /\ UNCHANGED <<ret, msg, ser, leaked, lock, last_rgb, brightness, hb_stop,
                   auto_reconnect, scaled_rgb, callbacks>>
    /\ UNCHANGED app

\* lines 107-108: if not self.is_open() and self.auto_reconnect: self.try_reconnect()
send_rgb_reconnect ==
    /\ pc["main"] = "send_rgb_reconnect"
    /\ IF ~is_open /\ auto_reconnect
       THEN Call("main", "try_reconnect_serial", "send_rgb_check")
       ELSE Goto("main", "send_rgb_check") /\ UNCHANGED stack
    /\ UNCHANGED <<ret, msg, ser, leaked, lock, last_rgb, brightness, hb_stop,
                   auto_reconnect, rgb, scaled_rgb, callbacks, hist>>
    /\ UNCHANGED app

\* lines 109-110: if not self.is_open(): return False
send_rgb_check ==
    /\ pc["main"] = "send_rgb_check"
    /\ IF is_open
       THEN Goto("main", "send_rgb_scale") /\ UNCHANGED <<stack, ret, hist>>
       ELSE Return("main", FALSE) /\ hist' = [hist EXCEPT !.valid = FALSE]
    /\ UNCHANGED <<msg, ser, leaked, lock, last_rgb, brightness, hb_stop,
                   auto_reconnect, rgb, scaled_rgb, callbacks>>
    /\ UNCHANGED app

\* lines 112-116: scaled_rgb = ...; if self.last_rgb == scaled_rgb: return
\* False; ok = self.send_message(f"LED ...")
send_rgb_scale ==
    /\ pc["main"] = "send_rgb_scale"
    /\ LET s == scale(rgb, brightness) IN
          IF last_rgb = s
          THEN /\ Return("main", FALSE)
               /\ UNCHANGED <<msg, scaled_rgb, hist>>
          ELSE /\ scaled_rgb' = s
               /\ msg' = [msg EXCEPT !["main"] = s]
               /\ hist' = [hist EXCEPT !.diff = TRUE]
               /\ Call("main", "send_message_open", "send_rgb_store")
               /\ UNCHANGED ret
    /\ UNCHANGED <<ser, leaked, lock, last_rgb, brightness, hb_stop,
                   auto_reconnect, rgb, callbacks>>
    /\ UNCHANGED app

\* A send_rgb_if_changed that returns ok without recording what it sent
send_rgb_store_forgets ==
    /\ pc["main"] = "send_rgb_store"
    /\ Return("main", ret["main"])
    /\ UNCHANGED <<msg, ser, leaked, lock, last_rgb, brightness, hb_stop,
                   auto_reconnect, rgb, scaled_rgb, callbacks, hist>>
    /\ UNCHANGED app

\* lines 117-119: if ok: self.last_rgb = scaled_rgb; return ok
send_rgb_store ==
    /\ pc["main"] = "send_rgb_store"
    /\ last_rgb' = IF ret["main"] THEN scaled_rgb ELSE last_rgb
    /\ Return("main", ret["main"])
    /\ UNCHANGED <<msg, ser, leaked, lock, brightness, hb_stop,
                   auto_reconnect, rgb, scaled_rgb, callbacks, hist>>
    /\ UNCHANGED app

\* ---------------------------------------------------------- set_brightness()
\* lines 74-79: self.brightness = max(0.0, min(1.0, value)); if self.last_rgb:
\* scaled = tuple(int(c * self.brightness) for c in self.last_rgb);
\* self.send_rgb_if_changed(scaled)
set_brightness_call ==
    /\ pc["main"] = "idle"
    /\ \E value \in BrightnessIn :
          /\ brightness' = clamp_brightness(value)
          /\ IF last_rgb # NoRgb
             THEN /\ rgb' = rescale(last_rgb, brightness')
                  /\ pc' = [pc EXCEPT !["main"] = "send_rgb_reconnect"]
                  /\ stack' = [stack EXCEPT !["main"] = <<"send_rgb_inner_ret", "set_brightness_ret">>]
                  /\ hist' = [Begun(hist) EXCEPT !.bchanged = TRUE]
             ELSE /\ Goto("main", "set_brightness_ret")
                  /\ hist' = [hist EXCEPT !.bchanged = TRUE]
                  /\ UNCHANGED <<rgb, stack>>
    /\ UNCHANGED <<ret, msg, ser, leaked, lock, last_rgb, hb_stop,
                   auto_reconnect, scaled_rgb, callbacks>>
    /\ UNCHANGED app

\* line 79 returns: set_brightness() discards the result and returns
set_brightness_return ==
    /\ pc["main"] = "send_rgb_inner_ret"
    /\ Return("main", FALSE)
    /\ UNCHANGED <<msg, ser, leaked, lock, last_rgb, brightness, hb_stop,
                   auto_reconnect, rgb, scaled_rgb, callbacks, hist>>
    /\ UNCHANGED app

\* ---------------------------------------------------------- send_heartbeat()
\* lines 121-122: the caller calls send_heartbeat(), which is
\* self.send_message(self.heartbeat_message, only_if_changed=False)
send_heartbeat_call ==
    /\ pc["main"] = "idle"
    /\ msg' = [msg EXCEPT !["main"] = HB]
    /\ Call("main", "send_message_open", "send_heartbeat_ret")
    /\ UNCHANGED <<ret, ser, leaked, lock, last_rgb, brightness, hb_stop,
                   auto_reconnect, rgb, scaled_rgb, callbacks, hist>>
    /\ UNCHANGED app

\* lines 132-133: the caller calls stop_heartbeat(): self._hb_stop.set()
stop_heartbeat ==
    /\ pc["main"] = "idle"
    /\ hb_stop' = TRUE
    /\ hist' = [hist EXCEPT !.open_ok = FALSE]
    /\ UNCHANGED <<pc, stack, ret, msg, ser, leaked, lock, last_rgb, brightness,
                   auto_reconnect, rgb, scaled_rgb, callbacks>>
    /\ UNCHANGED app

\* A method the caller called has returned to it.
ReturnLabels ==
    {"open_ret", "close_ret", "send_rgb_ret", "set_brightness_ret", "send_heartbeat_ret"}

main_return ==
    /\ pc["main"] \in ReturnLabels
    /\ Goto("main", "idle")
    /\ ret' = [ret EXCEPT !["main"] = FALSE]
    /\ rgb' = NoRgb
    /\ scaled_rgb' = NoRgb
    /\ hist' = [hist EXCEPT
                  !.prev = IF pc["main"] = "send_rgb_ret" /\ hist.valid THEN rgb ELSE @,
                  !.bchanged = IF pc["main"] = "send_rgb_ret" /\ hist.valid THEN FALSE ELSE @,
                  !.valid = FALSE, !.writes = 0, !.diff = FALSE, !.owned = FALSE,
                  !.fresh = FALSE]
    /\ callbacks' = [callbacks EXCEPT !["main"] = NoCallbacks]
    /\ UNCHANGED <<stack, msg, ser, leaked, lock, last_rgb, brightness, hb_stop,
                   auto_reconnect>>
    /\ UNCHANGED app

\* -------------------------------------------------------- _heartbeat_loop()
\* line 136: while not self._hb_stop.is_set(); the thread ends when it is set
heartbeat_loop ==
    /\ pc["hb"] = "heartbeat_loop"
    /\ Goto("hb", IF hb_stop THEN "dead" ELSE "heartbeat_tick")
    /\ UNCHANGED <<stack, ret, msg, ser, leaked, lock, last_rgb, brightness, hb_stop,
                   auto_reconnect, rgb, scaled_rgb, callbacks, hist>>
    /\ UNCHANGED app

\* lines 137-140: if self.is_open(): self.send_heartbeat()
\* elif self.auto_reconnect: if self.try_reconnect(): ...
heartbeat_tick ==
    /\ pc["hb"] = "heartbeat_tick"
    /\ IF is_open
       THEN /\ msg' = [msg EXCEPT !["hb"] = HB]
            /\ Call("hb", "send_message_open", "heartbeat_sleep")
       ELSE /\ IF auto_reconnect
               THEN Call("hb", "try_reconnect_serial", "heartbeat_reconnected")
               ELSE Goto("hb", "heartbeat_sleep") /\ UNCHANGED stack
            /\ UNCHANGED msg
    /\ UNCHANGED <<ret, ser, leaked, lock, last_rgb, brightness, hb_stop,
                   auto_reconnect, rgb, scaled_rgb, callbacks, hist>>
    /\ UNCHANGED app

\* line 141: self._tk_callback(self.on_reconnect) when try_reconnect() returned True
heartbeat_reconnected ==
    /\ pc["hb"] = "heartbeat_reconnected"
    /\ IF ret["hb"] THEN tk_callback("hb", "reconnect") ELSE UNCHANGED callbacks
    /\ Goto("hb", "heartbeat_sleep")
    /\ UNCHANGED <<stack, ret, msg, ser, leaked, lock, last_rgb, brightness, hb_stop,
                   auto_reconnect, rgb, scaled_rgb, hist>>
    /\ UNCHANGED app

\* line 142: time.sleep(self.heartbeat_interval)
heartbeat_sleep ==
    /\ pc["hb"] = "heartbeat_sleep"
    /\ Goto("hb", "heartbeat_loop")
    /\ ret' = [ret EXCEPT !["hb"] = FALSE]
    /\ callbacks' = [callbacks EXCEPT !["hb"] = NoCallbacks]
    /\ UNCHANGED <<stack, msg, ser, leaked, lock, last_rgb, brightness, hb_stop,
                   auto_reconnect, rgb, scaled_rgb, hist>>
    /\ UNCHANGED app

\* ------------------------------------------------------------------- Next
Next ==
    \/ \E t \in Threads :
          \/ close_stop(t)
          \/ close_lock(t)
          \/ close_ser(t)
          \/ close_callback(t)
          \/ close_clear_ser(t)
          \/ close_clear_rgb(t)
          \/ try_reconnect_serial(t)
          \/ try_reconnect_assign(t)
          \/ try_reconnect_clear_rgb(t)
          \/ try_reconnect_callback(t)
          \/ send_message_open(t)
          \/ send_message_reconnected(t)
          \/ send_message_check(t)
          \/ send_message_lock(t)
          \/ send_message_write(t)
          \/ send_message_failed(t)
    \/ close_call
    \/ open_call
    \/ open_serial
    \/ open_assign
    \/ open_clear_rgb
    \/ open_start_heartbeat
    \/ open_callback
    \/ send_rgb_call
    \/ send_rgb_reconnect
    \/ send_rgb_check
    \/ send_rgb_scale
    \/ send_rgb_store
    \/ set_brightness_call
    \/ set_brightness_return
    \/ send_heartbeat_call
    \/ stop_heartbeat
    \/ main_return
    \/ heartbeat_loop
    \/ heartbeat_tick
    \/ heartbeat_reconnected
    \/ heartbeat_sleep

Spec == Init /\ [][Next]_vars

\* send_rgb_if_changed() from line 112 on, for every colour and brightness:
\* the link is Open, nothing was sent on it yet, and the heartbeat thread was
\* stopped (stop_heartbeat()) and has ended.
ScaleColorsIn == {<<r, g, ChanMax>> : r \in 0..ChanMax, g \in {0, 1, ChanMax \div 2}}

ScaleInit ==
    /\ pc = [t \in Threads |-> IF t = "main" THEN "send_rgb_scale" ELSE "dead"]
    /\ stack = [t \in Threads |-> IF t = "main" THEN <<"send_rgb_ret">> ELSE <<>>]
    /\ ret = [t \in Threads |-> FALSE]
    /\ msg = [t \in Threads |-> NoMsg]
    /\ ser = "open"
    /\ leaked = 0
    /\ lock = "free"
    /\ last_rgb = NoRgb
    /\ brightness \in 0..BDen
    /\ hb_stop = TRUE
    /\ auto_reconnect = FALSE
    /\ rgb \in ScaleColorsIn
    /\ scaled_rgb = NoRgb
    /\ callbacks = [t \in Threads |-> NoCallbacks]
    /\ hist = [NoHistory EXCEPT !.valid = TRUE]
    /\ app = FMSStatusApp

ScaleNext ==
    \/ send_rgb_scale
    \/ send_message_open("main")
    \/ send_message_lock("main")
    \/ send_message_write("main")
    \/ send_rgb_store

ScaleSpec == ScaleInit /\ [][ScaleNext]_vars

\* rslComm.py: the application alone
BlinkSpec == Init /\ [][BlinkNext]_vars

\* ================================================================= claims
\* A thread waits for self.lock, which some thread holds.
Blocked(t) == pc[t] \in {"close_lock", "send_message_lock"} /\ lock # "free"

\* C1: when a Transport write fails during a send on an Open link, the link is
\* closed and the send returns failure.  As a property a finite run refutes:
\* the close() that the write-failure handler calls can take the lock, i.e. the
\* lock is not held by the very thread that waits for it.
C1_WriteFailureClosesLink ==
    \A t \in Threads :
        (pc[t] = "close_lock" /\ Head(stack[t]) = "send_message_return") => lock # t

\* C2: no Link operation blocks indefinitely: no thread waits for self.lock
\* while its holder is itself waiting for self.lock (a wait that cannot end).
C2_NoOperationBlocksForever ==
    \A t \in Threads : Blocked(t) => ~Blocked(lock)

\* C3: on an Open link with successful writes and unchanged brightness, a
\* send_rgb_if_changed call with the colour of the call before it writes
\* nothing and returns False, and a call whose scaled colour differs from
\* last_rgb writes exactly one LED message, that colour, stores it in last_rgb
\* and returns True; no other call writes.
C3_ChangeSuppression ==
    (pc["main"] = "send_rgb_ret" /\ hist.valid) =>
        /\ (hist.prev = rgb /\ ~hist.bchanged) => (hist.writes = 0 /\ ~ret["main"])
        /\ hist.diff => /\ hist.writes = 1
                        /\ hist.wire = scaled_rgb
                        /\ last_rgb = scaled_rgb
                        /\ ret["main"]
        /\ ~hist.diff => (hist.writes = 0 /\ ~ret["main"])

\* The second of two calls with the same colour has returned, suppressed.
C3_Witness ==
    /\ pc["main"] = "send_rgb_ret" /\ hist.valid
    /\ hist.prev = rgb /\ ~hist.bchanged
    /\ hist.writes = 0 /\ last_rgb = scale(rgb, brightness)

\* C4: a send_rgb_if_changed call that begins on an Open link on which no LED
\* message was written since it became Open (fresh open or reconnect) writes
\* its LED message.
C4_FirstSendAfterOpenWrites ==
    (pc["main"] = "send_rgb_ret" /\ hist.fresh) => hist.writes >= 1

\* C5: at most one Transport opened by the Link is open.
C5_AtMostOneOpenTransport == OpenTransports <= 1

\* C6: after open() returned True, while the link stays Open and until close()
\* or stop_heartbeat() is called, the heartbeat thread is running.
C6_HeartbeatRunsAfterOpen == (hist.open_ok /\ ser = "open") => pc["hb"] # "dead"

\* C7: the step on which close() returns to the caller leaves the link Closed:
\* no Transport is owned, last_rgb is unknown, the stop event is set, and
\* on_disconnect was delivered only if a Transport was owned when close() was
\* called.
C7_CloseLeavesClosed ==
    [][(pc["main"] = "close_clear_rgb" /\ pc'["main"] = "close_ret") =>
          /\ ser' = "None"
          /\ last_rgb' = NoRgb
          /\ hb_stop'
          /\ callbacks'["main"]["disconnect"] > 0 => hist'.owned]_vars

\* C8 (blink part, rslComm.py): a _blink_step timer that was pending when
\* stop_blink stopped the blinking writes nothing when it fires.
C8_CancelledStepWritesNothing == ~app.stale_write

\* C9 as the code has it: each channel of the LED message send_rgb_if_changed
\* writes is the product c_i * f truncated to an integer (its floor), which
\* lies in 0..255.
C9_ScaleTruncates ==
    hist.wire # NoRgb =>
        \A i \in 1..3 :
            /\ hist.wire[i] \in 0..ChanMax
            /\ hist.wire[i] * BDen <= rgb[i] * brightness
            /\ rgb[i] * brightness < (hist.wire[i] + 1) * BDen

\* 255 at brightness 0.5 went out as 127.
C9_Witness ==
    /\ hist.wire # NoRgb
    /\ rgb[1] = ChanMax /\ 2 * brightness = BDen
    /\ hist.wire[1] = ChanMax \div 2

\* C9 as stated: each channel of the LED message is c_i * f rounded, i.e. an
\* integer nearest to the product (whichever way a tie is broken).
C9_ScaleRounds ==
    hist.wire # NoRgb =>
        \A i \in 1..3 :
            /\ 2 * (hist.wire[i] * BDen - rgb[i] * brightness) <= BDen
            /\ 2 * (rgb[i] * brightness - hist.wire[i] * BDen) <= BDen

\* C10: set_brightness(f), when a colour c was sent before on the Open link,
\* leaves last_rgb (and the LED message it wrote) equal to c scaled by the new
\* factor.
C10_BrightnessRescalesTarget ==
    (pc["main"] = "set_brightness_ret" /\ hist.prev # NoRgb /\ hist.valid) =>
        /\ last_rgb = scale(hist.prev, brightness)
        /\ hist.writes > 0 => hist.wire = scale(hist.prev, brightness)

\* C11: each callback is delivered at most once per transition.  A heartbeat
\* iteration and a send_heartbeat() call make at most one try_reconnect() call
\* and open() opens once and closes once, so within one of them each callback
\* is scheduled at most once.
C11_CallbackOncePerTransition ==
    /\ callbacks["hb"]["reconnect"] <= 1
    /\ MainOp = "send_heartbeat_ret" => callbacks["main"]["reconnect"] <= 1
    /\ MainOp = "open_ret" =>
          (callbacks["main"]["connect"] <= 1 /\ callbacks["main"]["disconnect"] <= 1)

\* C12 (rslComm.py): start_blink(c) while already blinking c changes nothing:
\* no field, no write, no further timer.  start_blink(c) while blinking another
\* colour, on an open link whose writes succeed, makes c the target, runs the
\* "on" phase at once and so writes c before anything else.
C12_StartBlinkIdempotent ==
    app.did.op = "start_blink" =>
        LET was == app.did.was
            now == app.did.now
            c   == app.did.rgb
        IN  /\ (was.blinking /\ was.blink_rgb = c) => now = was
            /\ (was.blinking /\ was.blink_rgb # c /\ was.ser = "open" /\ app.did.ok) =>
                  /\ now.blinking /\ now.blink_rgb = c /\ now.blink_state
                  /\ now.wire = <<c>> /\ now.last_rgb = c

\* start_blink was called with the colour already blinking, a timer pending.
C12_Witness ==
    /\ app.did.op = "start_blink"
    /\ app.did.was.blinking /\ app.did.was.blink_rgb = app.did.rgb
    /\ app.did.was.after # <<>> /\ app.did.was.ser = "open"

\* C13 (rslComm.py): stop_blink() called while blinking, on an open link whose
\* writes succeed, writes the target colour exactly once, whichever phase was
\* active, and leaves the overlay idle.
C13_StopBlinkFinalWrite ==
    (/\ app.did.op = "stop_blink"
     /\ app.did.was.blinking /\ app.did.was.ser = "open" /\ app.did.ok) =>
        /\ app.did.now.wire = <<app.did.was.blink_rgb>>
        /\ ~app.did.now.blinking /\ app.did.now.blink_rgb = NoRgb

\* C19 (rslComm.py): at most one _blink_step timer is pending.
C19_OneBlinkStepPending == Len(app.after) <= 1

\* C14: when try_reconnect() returns True the heartbeat thread is running: it
\* is alive and has not been told to stop.
C14_ReconnectLeavesHeartbeatRunning ==
    [][\A t \in Threads :
          (pc[t] = "try_reconnect_callback" /\ pc'[t] # "try_reconnect_callback") =>
              (pc'["hb"] # "dead" /\ ~hb_stop')]_vars

\* C15: no two threads are inside try_reconnect() at the same time.
C15_ReconnectSingleFlight == ~(Reconnecting("main") /\ Reconnecting("hb"))

\* C16: a heartbeat loop iteration that writes the heartbeat message has made
\* no reconnect in the same iteration (callbacks["hb"] counts the on_reconnect
\* deliveries of the iteration in progress).
C16_TickWritesOrReconnects ==
    [][(pc["hb"] = "send_message_write" /\ pc'["hb"] = "heartbeat_sleep") =>
          callbacks["hb"]["reconnect"] = 0]_vars

\* A thread is between acquiring self.lock in send_message and its write.
Writing(t) == pc[t] = "send_message_write"

\* C17: Transport writes are mutually exclusive: a thread inside the write
\* holds self.lock, so no two threads are inside it at once.
C17_WritesMutuallyExclusive ==
    /\ \A t \in Threads : Writing(t) => lock = t
    /\ ~(Writing("main") /\ Writing("hb"))

\* One thread is inside the write while the other waits for the lock to write.
C17_Witness ==
    \E t, u \in Threads : t # u /\ Writing(t) /\ pc[u] = "send_message_lock"

\* No call is in progress on either thread.
Quiet == pc["main"] = "idle" /\ stack["hb"] = <<>>

\* C18: when the link is Open and no call is in progress, last_rgb is unknown
\* or the channels of the last LED message written since self.ser became the
\* open Transport.
C18_LastSentColorNotCorrupted ==
    (Quiet /\ ser = "open") => (last_rgb = NoRgb \/ last_rgb = hist.wire)

\* C20: after close() has returned with the link Closed, and before the caller
\* calls anything else, no step opens a Transport.
C20_StaysClosedAfterClose ==
    [][(pc["main"] = "close_ret" /\ ser = "None" /\ Constructed = {}) =>
          (ser' = "None" /\ Constructed' = {})]_vars

\* The places where a send or a heartbeat tick tests is_open(): lines 83, 86,
\* 107, 109 and 137.
SendLabels ==
    {"send_message_open", "send_message_check", "send_rgb_reconnect",
     "send_rgb_check", "heartbeat_tick"}

\* Thread t takes a step of a send or of a heartbeat tick on a link that is not Open.
ClosedSendStep(t) == ser # "open" /\ pc[t] \in SendLabels /\ pc'[t] # pc[t]

\* C21: with auto_reconnect disabled, only open() makes the link Open and no
\* thread enters try_reconnect(); a step of send_rgb_if_changed, send_message
\* or a heartbeat tick on a link that is not Open changes no Link state, opens
\* no Transport and writes nothing, and the final is_open() test of a send
\* returns False to its caller.
C21_NoReconnectWhenDisabled ==
    [][~auto_reconnect =>
          /\ (ser # "open" /\ ser' = "open") => pc["main"] = "open_assign"
          /\ \A t \in Threads : ~Reconnecting(t)'
          /\ \A t \in Threads :
                ClosedSendStep(t) =>
                    /\ UNCHANGED <<ser, leaked, lock, last_rgb, brightness, hb_stop>>
                    /\ Constructed' = Constructed
                    /\ hist'.writes = hist.writes /\ hist'.wire = hist.wire
                    /\ pc[t] \in {"send_message_check", "send_rgb_check"} =>
                          (~ret'[t] /\ pc'[t] = Head(stack[t]))]_vars

\* With auto_reconnect disabled, send_rgb_if_changed has returned False on a
\* closed link while the heartbeat thread, still alive, has ticked on it.
C21_Witness ==
    /\ ~auto_reconnect
    /\ pc["main"] = "send_rgb_ret" /\ ser = "None" /\ ~ret["main"]
    /\ pc["hb"] = "heartbeat_sleep"
====
